---- MODULE Spec2Model ----
(***************************************************************************)
(* A model of test-image.py: a sequential script that reads a credential   *)
(* from the environment, fetches an image over HTTP, base64-encodes it,    *)
(* sends it with a text prompt to an agent-messaging API and prints the    *)
(* response.                                                               *)
(*                                                                         *)
(* Python values are modelled as records with a "type" field, so that None,*)
(* strings and objects can be told apart the way the interpreter does.     *)
(* External calls (the HTTP GET, the API call) either return a value drawn *)
(* from a small set or raise; an exception nothing catches ends the run.   *)
(***************************************************************************)
EXTENDS Integers, Sequences, FiniteSets, TLC

\* ------------------------------------------------------------------ bounds

\* Longest body (in bytes) the HTTP GET returns.
MaxLen == 4

\* ------------------------------------------------------- input alphabets

\* Byte values a body is drawn from: all-zero, all-one and two mixed patterns
\* (0xFF 0xD8 opens a JPEG file).
ByteVals == {0, 77, 216, 255}

RECURSIVE SeqsUpTo(_, _)
SeqsUpTo(S, n) ==
    IF n = 0 THEN {<<>>}
    ELSE LET shorter == SeqsUpTo(S, n - 1)
         IN  shorter \cup {Append(s, x) : s \in {t \in shorter : Len(t) = n - 1}, x \in S}

Bodies == SeqsUpTo(ByteVals, MaxLen)

\* Status codes of a GET that returns (httpx.get does not raise on them).
StatusCodes == {200, 404}

\* A name no statement has assigned yet, and the exit status of a running process.
Unbound == [type |-> "unbound"]
Running == [type |-> "running"]

\* What the process environment may hold for LETTA_API_KEY: os.getenv gives
\* None for an unset variable, and the value (possibly empty) of a set one.
PyNone == [type |-> "NoneType"]
PyString(s) == [type |-> "str", val |-> s]
EnvValues == {PyNone, PyString(""), PyString("sk-let-A"), PyString("sk-let-B")}

\* Response objects the agent-messaging API may return.
ApiResponses == {[type |-> "LettaResponse", id |-> "message-1"],
                 [type |-> "LettaResponse", id |-> "message-2"]}

\* ---------------------------------------------------- the script's literals

image_url == "https://upload.wikimedia.org/wikipedia/commons/a/a7/Camponotus_flavomarginatus_ant.jpg"
agent_id == "agent-bb780791-961a-4fa3-95ba-b681b6d508e6"
ErrorMessage == "Error: LETTA_API_KEY environment variable not set"
ResponseHeader == "Response:"

\* ------------------------------------------------------ Python semantics

\* A faulty variant: PyTruthy as an `is not None` test would be: the empty string passes.
PyTruthy_IsNotNone(v) == v.type # "NoneType"

\* bool(v) of a str or None: None and the empty string are falsy.
PyTruthy(v) ==
    CASE v.type = "NoneType" -> FALSE
      [] v.type = "str"      -> v.val # ""
      [] OTHER               -> TRUE

\* What print(x) writes as one line: a str as it is, any other object through
\* its own str().
StrOfObject(x) == [kind |-> "str()", of |-> x]
PrintedLine(x) ==
    IF x.type = "str" THEN [kind |-> "text", of |-> x] ELSE StrOfObject(x)

\* ---------------------------------------------------------------- base64

\* The standard alphabet as ASCII codes: A-Z, a-z, 0-9, '+', '/'.
B64Code(i) ==
    IF i < 26 THEN 65 + i
    ELSE IF i < 52 THEN 97 + (i - 26)
    ELSE IF i < 62 THEN 48 + (i - 52)
    ELSE IF i = 62 THEN 43
    ELSE 47

\* A faulty variant: B64Group with the last sextet of a short group left unshifted.
B64Group_UnshiftedTail(g) ==
    IF Len(g) = 3 THEN
        << B64Code(g[1] \div 4),
           B64Code((g[1] % 4) * 16 + g[2] \div 16),
           B64Code((g[2] % 16) * 4 + g[3] \div 64),
           B64Code(g[3] % 64) >>
    ELSE IF Len(g) = 2 THEN
        << B64Code(g[1] \div 4),
           B64Code((g[1] % 4) * 16 + g[2] \div 16),
           B64Code(g[2] % 16),
           61 >>
    ELSE
        << B64Code(g[1] \div 4),
           B64Code(g[1] % 4),
           61,
           61 >>

\* One group of three, two or one input bytes as four output bytes ('=' is 61).
B64Group(g) ==
    IF Len(g) = 3 THEN
        << B64Code(g[1] \div 4),
           B64Code((g[1] % 4) * 16 + g[2] \div 16),
           B64Code((g[2] % 16) * 4 + g[3] \div 64),
           B64Code(g[3] % 64) >>
    ELSE IF Len(g) = 2 THEN
        << B64Code(g[1] \div 4),
           B64Code((g[1] % 4) * 16 + g[2] \div 16),
           B64Code((g[2] % 16) * 4),
           61 >>
    ELSE
        << B64Code(g[1] \div 4),
           B64Code((g[1] % 4) * 16),
           61,
           61 >>

\* base64.standard_b64encode(bytes) -> bytes
RECURSIVE standard_b64encode(_)
standard_b64encode(bs) ==
    IF Len(bs) = 0 THEN <<>>
    ELSE IF Len(bs) <= 3 THEN B64Group(bs)
    ELSE B64Group(SubSeq(bs, 1, 3)) \o standard_b64encode(SubSeq(bs, 4, Len(bs)))

\* chr() of an ASCII code, for the codes base64 produces.
Upper == <<"A","B","C","D","E","F","G","H","I","J","K","L","M",
           "N","O","P","Q","R","S","T","U","V","W","X","Y","Z">>
Lower == <<"a","b","c","d","e","f","g","h","i","j","k","l","m",
           "n","o","p","q","r","s","t","u","v","w","x","y","z">>
Digit == <<"0","1","2","3","4","5","6","7","8","9">>
Chr(c) ==
    IF c \in 65..90 THEN Upper[c - 64]
    ELSE IF c \in 97..122 THEN Lower[c - 96]
    ELSE IF c \in 48..57 THEN Digit[c - 47]
    ELSE IF c = 43 THEN "+"
    ELSE IF c = 47 THEN "/"
    ELSE "="

\* bytes.decode("utf-8") of ASCII bytes: one character per byte.
Utf8Decode(bs) == [i \in 1..Len(bs) |-> Chr(bs[i])]

\* Line 14's value once the GET has returned `content`.
EncodeImage(content) ==
    [type |-> "str", chars |-> Utf8Decode(standard_b64encode(content))]

\* ------------------------------------------------------------- the payload

\* A faulty variant: Messages with the text block put before the image block.
Messages_TextFirst(data) ==
    << [role |-> "user",
        content |->
          << [type |-> "text", text |-> "Describe this image."],
             [type |-> "image",
              source |-> [type |-> "base64",
                          media_type |-> "image/jpeg",
                          data |-> data]] >>] >>

\* The messages argument of lines 18-36.
Messages(data) ==
    << [role |-> "user",
        content |->
          << [type |-> "image",
              source |-> [type |-> "base64",
                          media_type |-> "image/jpeg",
                          data |-> data]],
             [type |-> "text", text |-> "Describe this image."] >>] >>

\* ------------------------------------------------------------------- state

VARIABLES
    environ,      \* the value of LETTA_API_KEY in the process environment
    pc,           \* the statement the script is at
    token,        \* line 6
    client,       \* line 11
    fetched,      \* the httpx response of line 14, before .content is taken
    image_data,   \* line 14
    response,     \* line 16
    stdout,       \* the lines printed so far
    http_gets,    \* the GET requests issued so far, each with how it ended
    api_calls,    \* the agent-messaging calls issued so far, each with how it ended
    uncaught,     \* the call whose exception ended the run, or "none"
    exit_status   \* the process's exit status once pc = "exited"

vars == <<environ, pc, token, client, fetched, image_data, response, stdout,
          http_gets, api_calls, uncaught, exit_status>>

Init ==
    /\ environ \in EnvValues
    /\ pc = "getenv"
    /\ token = Unbound
    /\ client = Unbound
    /\ fetched = Unbound
    /\ image_data = Unbound
    /\ response = Unbound
    /\ stdout = <<>>
    /\ http_gets = <<>>
    /\ api_calls = <<>>
    /\ uncaught = "none"
    /\ exit_status = Running

\* An exception nothing catches: the interpreter ends the run with status 1.
Propagate(call) ==
    /\ uncaught' = call
    /\ pc' = "exited"
    /\ exit_status' = [type |-> "int", val |-> 1]

\* ----------------------------------------------------------------- actions
\* The imports of lines 1-4 and the construction of the client (line 11, which
\* sends nothing) are taken not to fail.

\* Line 6: token = os.getenv('LETTA_API_KEY')
GetEnv ==
    /\ pc = "getenv"
    /\ token' = environ
    /\ pc' = "check"
    /\ UNCHANGED <<environ, client, fetched, image_data, response, stdout,
                   http_gets, api_calls, uncaught, exit_status>>

\* A faulty variant: CheckToken without the test: the run goes on whatever the token is.
CheckToken_NoGuard ==
    /\ pc = "check"
    /\ pc' = "construct"
    /\ UNCHANGED <<environ, token, client, fetched, image_data, response, stdout,
                   http_gets, api_calls, uncaught, exit_status>>

\* Line 7: if not token:
CheckToken ==
    /\ pc = "check"
    /\ pc' = IF ~PyTruthy(token) THEN "print_error" ELSE "construct"
    /\ UNCHANGED <<environ, token, client, fetched, image_data, response, stdout,
                   http_gets, api_calls, uncaught, exit_status>>

\* Line 8: print("Error: ...")
PrintError ==
    /\ pc = "print_error"
    /\ stdout' = Append(stdout, PrintedLine(PyString(ErrorMessage)))
    /\ pc' = "exit"
    /\ UNCHANGED <<environ, token, client, fetched, image_data, response,
                   http_gets, api_calls, uncaught, exit_status>>

\* A faulty variant: Exit as a bare exit() would be: status 0.
Exit_StatusZero ==
    /\ pc = "exit"
    /\ exit_status' = [type |-> "int", val |-> 0]
    /\ pc' = "exited"
    /\ UNCHANGED <<environ, token, client, fetched, image_data, response, stdout,
                   http_gets, api_calls, uncaught>>

\* Line 9: exit(1)
Exit ==
    /\ pc = "exit"
    /\ exit_status' = [type |-> "int", val |-> 1]
    /\ pc' = "exited"
    /\ UNCHANGED <<environ, token, client, fetched, image_data, response, stdout,
                   http_gets, api_calls, uncaught>>

\* A faulty variant: Construct followed at once by the API call, the fetch left out.
Construct_SkipFetch ==
    /\ pc = "construct"
    /\ client' = [type |-> "Letta", token |-> token]
    /\ pc' = "create"
    /\ UNCHANGED <<environ, token, fetched, image_data, response, stdout,
                   http_gets, api_calls, uncaught, exit_status>>

\* Line 11: client = Letta(token=token)
Construct ==
    /\ pc = "construct"
    /\ client' = [type |-> "Letta", token |-> token]
    /\ pc' = "http_get"
    /\ UNCHANGED <<environ, token, fetched, image_data, response, stdout,
                   http_gets, api_calls, uncaught, exit_status>>

\* A faulty variant: HttpGet with a handler that replaces a failed fetch by an empty body.
HttpGet_Fallback ==
    /\ pc = "http_get"
    /\ \/ /\ \E s \in StatusCodes, b \in Bodies :
                fetched' = [type |-> "Response", status_code |-> s, content |-> b]
          /\ http_gets' = Append(http_gets, [url |-> image_url, outcome |-> "returned"])
       \/ /\ fetched' = [type |-> "Response", status_code |-> 200, content |-> <<>>]
          /\ http_gets' = Append(http_gets, [url |-> image_url, outcome |-> "raised"])
    /\ pc' = "encode"
    /\ UNCHANGED <<environ, token, client, image_data, response, stdout, api_calls,
                   uncaught, exit_status>>

\* A faulty variant: HttpGet with the response validated (raise_for_status) before use.
HttpGet_RaiseForStatus ==
    /\ pc = "http_get"
    /\ \/ /\ \E s \in StatusCodes, b \in Bodies :
                /\ fetched' = [type |-> "Response", status_code |-> s, content |-> b]
                /\ IF s >= 400
                   THEN Propagate("httpx.get")
                   ELSE pc' = "encode" /\ UNCHANGED <<uncaught, exit_status>>
          /\ http_gets' = Append(http_gets, [url |-> image_url, outcome |-> "returned"])
       \/ /\ http_gets' = Append(http_gets, [url |-> image_url, outcome |-> "raised"])
          /\ Propagate("httpx.get")
          /\ UNCHANGED fetched
    /\ UNCHANGED <<environ, token, client, image_data, response, stdout, api_calls>>

\* Line 14, httpx.get(image_url): one request; it returns a response of any
\* status and body, or raises (a network error). http_gets records the
\* request and how it ended.
HttpGet ==
    /\ pc = "http_get"
    /\ \/ /\ \E s \in StatusCodes, b \in Bodies :
                fetched' = [type |-> "Response", status_code |-> s, content |-> b]
          /\ http_gets' = Append(http_gets, [url |-> image_url, outcome |-> "returned"])
          /\ pc' = "encode"
          /\ UNCHANGED <<uncaught, exit_status>>
       \/ /\ http_gets' = Append(http_gets, [url |-> image_url, outcome |-> "raised"])
          /\ Propagate("httpx.get")
          /\ UNCHANGED fetched
    /\ UNCHANGED <<environ, token, client, image_data, response, stdout, api_calls>>

\* Line 14, the rest: image_data = base64.standard_b64encode(<>.content).decode("utf-8")
Encode ==
    /\ pc = "encode"
    /\ image_data' = EncodeImage(fetched.content)
    /\ pc' = "create"
    /\ UNCHANGED <<environ, token, client, fetched, response, stdout,
                   http_gets, api_calls, uncaught, exit_status>>

\* The arguments of the call of lines 16-37, logged with how the call ended.
ApiCall(outcome) ==
    [client |-> client,
     agent_id |-> agent_id,
     messages |-> Messages(image_data),
     outcome |-> outcome]

\* A faulty variant: Create with the call repeated when it raises.
Create_Retry ==
    /\ pc = "create"
    /\ \/ /\ response' \in ApiResponses
          /\ api_calls' = Append(api_calls, ApiCall("returned"))
          /\ pc' = "print_header"
       \/ /\ api_calls' = Append(api_calls, ApiCall("raised"))
          /\ UNCHANGED <<response, pc>>
    /\ UNCHANGED <<environ, token, client, fetched, image_data, stdout, http_gets,
                   uncaught, exit_status>>

\* Lines 16-37: response = client.agents.messages.create(agent_id=..., messages=[...])
\* One call; it returns a response object or raises (an API or network error).
\* api_calls records the call and how it ended.
Create ==
    /\ pc = "create"
    /\ \/ /\ response' \in ApiResponses
          /\ api_calls' = Append(api_calls, ApiCall("returned"))
          /\ pc' = "print_header"
          /\ UNCHANGED <<uncaught, exit_status>>
       \/ /\ api_calls' = Append(api_calls, ApiCall("raised"))
          /\ Propagate("client.agents.messages.create")
          /\ UNCHANGED response
    /\ UNCHANGED <<environ, token, client, fetched, image_data, stdout, http_gets>>

\* Line 39: print("Response:")
PrintHeader ==
    /\ pc = "print_header"
    /\ stdout' = Append(stdout, PrintedLine(PyString(ResponseHeader)))
    /\ pc' = "print_response"
    /\ UNCHANGED <<environ, token, client, fetched, image_data, response,
                   http_gets, api_calls, uncaught, exit_status>>

\* A faulty variant: PrintResponse printing a field of the response instead of the object.
PrintResponse_IdOnly ==
    /\ pc = "print_response"
    /\ stdout' = Append(stdout, PrintedLine(PyString(response.id)))
    /\ pc' = "end"
    /\ UNCHANGED <<environ, token, client, fetched, image_data, response,
                   http_gets, api_calls, uncaught, exit_status>>

\* Line 40: print(response)
PrintResponse ==
    /\ pc = "print_response"
    /\ stdout' = Append(stdout, PrintedLine(response))
    /\ pc' = "end"
    /\ UNCHANGED <<environ, token, client, fetched, image_data, response,
                   http_gets, api_calls, uncaught, exit_status>>

\* The end of the file: the interpreter exits with status 0.
ModuleEnd ==
    /\ pc = "end"
    /\ exit_status' = [type |-> "int", val |-> 0]
    /\ pc' = "exited"
    /\ UNCHANGED <<environ, token, client, fetched, image_data, response, stdout,
                   http_gets, api_calls, uncaught>>

Next ==
    \/ GetEnv
    \/ CheckToken
    \/ PrintError
    \/ Exit
    \/ Construct
    \/ HttpGet
    \/ Encode
    \/ Create
    \/ PrintHeader
    \/ PrintResponse
    \/ ModuleEnd

Spec == Init /\ [][Next]_vars

\* The interpreter runs a statement whenever one is left to run.
FairSpec == Spec /\ WF_vars(Next)

\* ================================================================ properties

\* The two lines print() writes on the success path, and the error line.
ErrorLine == PrintedLine(PyString(ErrorMessage))
HeaderLine == PrintedLine(PyString(ResponseHeader))
SuccessOutput == <<HeaderLine, StrOfObject(response)>>

\* The image block's data field of an issued call.
DataOf(call) == call.messages[1].content[1].source.data

\* A base64 decoder written from RFC 4648's table, independent of the encoder
\* above: the value of a character is its place in the table; '=' pads.
\* Text that is not a whole number of four-character groups decodes to <<-1>>.
Rfc4648Table ==
    <<"A","B","C","D","E","F","G","H","I","J","K","L","M","N","O","P",
      "Q","R","S","T","U","V","W","X","Y","Z","a","b","c","d","e","f",
      "g","h","i","j","k","l","m","n","o","p","q","r","s","t","u","v",
      "w","x","y","z","0","1","2","3","4","5","6","7","8","9","+","/">>
SextetOf(ch) == (CHOOSE i \in 1..64 : Rfc4648Table[i] = ch) - 1
DecodeGroup(q) ==
    LET v1 == SextetOf(q[1])
        v2 == SextetOf(q[2])
        b1 == v1 * 4 + v2 \div 16
    IN  IF q[3] = "=" THEN <<b1>>
        ELSE LET v3 == SextetOf(q[3])
                 b2 == (v2 % 16) * 16 + v3 \div 4
             IN  IF q[4] = "=" THEN <<b1, b2>>
                 ELSE <<b1, b2, (v3 % 4) * 64 + SextetOf(q[4])>>
RECURSIVE DecodeChars(_)
DecodeChars(cs) ==
    IF Len(cs) = 0 THEN <<>>
    ELSE DecodeGroup(SubSeq(cs, 1, 4)) \o DecodeChars(SubSeq(cs, 5, Len(cs)))
B64Decode(text) ==
    IF text.type # "str" \/ Len(text.chars) % 4 # 0 THEN <<-1>>
    ELSE DecodeChars(text.chars)

\* ---- C1 ----
\* C1: in a run that starts with LETTA_API_KEY unset, no HTTP GET and no API
\* call is ever issued and the client is never constructed; the run prints
\* the error message and exits.
C1_NoNetworkWithoutCredential ==
    environ = PyNone =>
        /\ http_gets = <<>>
        /\ api_calls = <<>>
        /\ client = Unbound
        /\ pc \in {"getenv", "check", "print_error", "exit", "exited"}
        /\ pc \in {"exit", "exited"} => stdout = <<ErrorLine>>

C1_Witness ==
    /\ environ = PyNone
    /\ pc = "exited"
    /\ stdout = <<ErrorLine>>

\* ---- C2 ----
\* C2: with the credential absent the process ends with exit status 1 and the
\* success output is never printed; only a run that has printed "Response:"
\* and the response ends with exit status 0.
C2_ExitStatus ==
    /\ (environ = PyNone /\ pc = "exited") => exit_status = [type |-> "int", val |-> 1]
    /\ environ = PyNone =>
          \A i \in 1..Len(stdout) : stdout[i] # HeaderLine /\ stdout[i].kind # "str()"
    /\ (pc = "exited" /\ exit_status.val = 0) =>
          /\ response \in ApiResponses
          /\ stdout = SuccessOutput
    /\ pc = "exited" <=> exit_status.type = "int"

C2_Witness ==
    /\ environ = PyNone
    /\ pc = "exited"
    /\ exit_status.val = 1
    /\ uncaught = "none"

\* ---- C3 ----
\* C3: every API call carries exactly one message, of role "user", whose
\* content is exactly an image block (base64 source, media type image/jpeg)
\* followed by a text block, whatever bytes were fetched.
C3_PayloadShape ==
    \A i \in 1..Len(api_calls) :
        LET m == api_calls[i].messages
        IN  /\ Len(m) = 1
            /\ m[1].role = "user"
            /\ Len(m[1].content) = 2
            /\ m[1].content[1].type = "image"
            /\ m[1].content[1].source.type = "base64"
            /\ m[1].content[1].source.media_type = "image/jpeg"
            /\ m[1].content[2].type = "text"
            /\ m[1].content[2].text = "Describe this image."

C3_Witness ==
    /\ Len(api_calls) = 1
    /\ fetched.type = "Response"
    /\ fetched.content = <<255, 216>>

\* ---- C4 ----
\* C4: base64-decoding the data field of the image block sent to the API
\* yields exactly the byte sequence the HTTP GET returned.
C4_RoundTrip ==
    \A i \in 1..Len(api_calls) :
        /\ fetched.type = "Response"
        /\ B64Decode(DataOf(api_calls[i])) = fetched.content

C4_Witness ==
    /\ Len(api_calls) = 1
    /\ fetched.type = "Response"
    /\ Len(fetched.content) = 4
    /\ B64Decode(DataOf(api_calls[1])) = <<255, 216, 0, 77>>

\* ---- C5 ----
\* C5: once the API call has returned a response, the program eventually has
\* printed "Response:" followed by that same response object, unmodified; and
\* a response is printed only if the API call returned it in this run.
C5_PrintsOnlyReturned ==
    \A i \in 1..Len(stdout) :
        stdout[i].kind = "str()" =>
            /\ i = 2
            /\ stdout[1] = HeaderLine
            /\ Len(api_calls) = 1
            /\ api_calls[1].outcome = "returned"
            /\ response \in ApiResponses
            /\ stdout[i] = StrOfObject(response)

C5_ResponsePrinted ==
    /\ [](C5_PrintsOnlyReturned)
    /\ [](stdout # <<>> /\ stdout[1] = HeaderLine => response \in ApiResponses)
    /\ \A r \in ApiResponses :
          (response = r) ~> (stdout = <<HeaderLine, StrOfObject(r)>>)

C5_Witness ==
    /\ response \in ApiResponses
    /\ response.id = "message-2"
    /\ stdout = SuccessOutput

\* ---- C6 ----
\* C6: a raising HTTP GET ends the run with an uncaught failure, no API call
\* issued and nothing printed; a raising API call ends the run with an
\* uncaught failure and no "Response:" output; the failed step is neither
\* repeated nor replaced by a fallback value.
C6_FailuresPropagate ==
    /\ \A i \in 1..Len(http_gets) :
          http_gets[i].outcome = "raised" =>
              /\ pc = "exited"
              /\ uncaught = "httpx.get"
              /\ exit_status = [type |-> "int", val |-> 1]
              /\ Len(http_gets) = 1
              /\ api_calls = <<>>
              /\ stdout = <<>>
              /\ fetched = Unbound
              /\ image_data = Unbound
    /\ \A i \in 1..Len(api_calls) :
          api_calls[i].outcome = "raised" =>
              /\ pc = "exited"
              /\ uncaught = "client.agents.messages.create"
              /\ exit_status = [type |-> "int", val |-> 1]
              /\ Len(api_calls) = 1
              /\ stdout = <<>>
              /\ response = Unbound
    /\ uncaught = "httpx.get" =>
          Len(http_gets) = 1 /\ http_gets[1].outcome = "raised"
    /\ uncaught = "client.agents.messages.create" =>
          Len(api_calls) = 1 /\ api_calls[1].outcome = "raised"

C6_Witness ==
    /\ pc = "exited"
    /\ uncaught = "client.agents.messages.create"
    /\ Len(http_gets) = 1
    /\ http_gets[1].outcome = "returned"

C6_WitnessGet ==
    /\ pc = "exited"
    /\ uncaught = "httpx.get"

\* ---- C7 ----
\* C7: the GET is issued only after the credential check passed (and the
\* client was built), the API call only after the GET returned and its body
\* was encoded, the response is printed only after the API call returned, and
\* a run that ends with status 0 has taken every step.
C7_GetAfterCheck ==
    http_gets # <<>> =>
        /\ token = environ
        /\ PyTruthy(token)
        /\ client = [type |-> "Letta", token |-> token]

C7_CallAfterEncode ==
    api_calls # <<>> =>
        /\ Len(http_gets) = 1
        /\ http_gets[1].outcome = "returned"
        /\ fetched.type = "Response"
        /\ image_data = EncodeImage(fetched.content)
        /\ DataOf(api_calls[1]) = image_data
        /\ api_calls[1].client = client

C7_PrintAfterReturn ==
    (stdout # <<>> /\ stdout[1] = HeaderLine) =>
        /\ Len(api_calls) = 1
        /\ api_calls[1].outcome = "returned"
        /\ response \in ApiResponses

C7_NoStepSkipped ==
    (pc = "exited" /\ exit_status.val = 0) =>
        /\ PyTruthy(token)
        /\ client.type = "Letta"
        /\ Len(http_gets) = 1
        /\ image_data.type = "str"
        /\ Len(api_calls) = 1
        /\ stdout = SuccessOutput

C7_LinearSequence ==
    /\ C7_GetAfterCheck
    /\ C7_CallAfterEncode
    /\ C7_PrintAfterReturn
    /\ C7_NoStepSkipped

C7_Witness ==
    /\ pc = "exited"
    /\ exit_status.val = 0
    /\ Len(stdout) = 2
    /\ Len(fetched.content) = 3

\* ---- C8 ----
\* C8: in a run, whatever the external calls do, at most one GET is issued,
\* to the fixed image URL, and at most one API call, to the fixed agent
\* identifier, carrying exactly one message.
C8_AtMostOnce ==
    /\ Len(http_gets) <= 1
    /\ Len(api_calls) <= 1
    /\ \A i \in 1..Len(http_gets) : http_gets[i].url = image_url
    /\ \A i \in 1..Len(api_calls) :
          /\ api_calls[i].agent_id = agent_id
          /\ Len(api_calls[i].messages) = 1

C8_Witness ==
    /\ pc = "exited"
    /\ Len(http_gets) = 1
    /\ Len(api_calls) = 1
    /\ api_calls[1].outcome = "raised"

\* ---- C9 ----
\* C9: whenever the GET returns, whatever its status code and body, the API
\* call is eventually issued, carrying that body base64-encoded and tagged
\* image/jpeg; a returned GET never ends the run before the call.
C9_CallMatchesBody ==
    (fetched.type = "Response" /\ pc \notin {"encode", "create"}) =>
        /\ Len(api_calls) = 1
        /\ DataOf(api_calls[1]) = EncodeImage(fetched.content)
        /\ api_calls[1].messages[1].content[1].source.media_type = "image/jpeg"

C9_NoValidation ==
    /\ [](C9_CallMatchesBody)
    /\ [](fetched.type = "Response" => uncaught # "httpx.get")
    /\ (fetched.type = "Response") ~> (Len(api_calls) = 1)

C9_Witness ==
    /\ fetched.type = "Response"
    /\ fetched.status_code = 404
    /\ fetched.content = <<>>
    /\ Len(api_calls) = 1
    /\ DataOf(api_calls[1]).chars = <<>>

\* ---- C10 ----
\* C10: a credential that is set but empty is treated like an unset one (the
\* same error line, exit status 1, no network call, no client); only a
\* non-empty credential lets the run reach client construction and the GET.
C10_EmptyLikeUnset ==
    /\ environ = PyString("") =>
          /\ http_gets = <<>>
          /\ api_calls = <<>>
          /\ client = Unbound
          /\ pc \in {"exit", "exited"} => stdout = <<ErrorLine>>
          /\ pc = "exited" => exit_status = [type |-> "int", val |-> 1]
    /\ (pc \in {"construct", "http_get"} \/ client # Unbound \/ http_gets # <<>>) =>
          /\ environ.type = "str"
          /\ environ.val # ""

C10_Witness ==
    /\ environ = PyString("")
    /\ token = PyString("")
    /\ pc = "exited"
    /\ exit_status.val = 1


====
